---- MODULE Spec2Model ----
(***************************************************************************)
(* Model of the RAG pipeline of auto-ecu-devkit (src/rag):                 *)
(*   - rag03_ingest_faiss.ingest over rag03_meta_sqlite.MetaStore and      *)
(*     rag03_index_faiss.FaissIndex (specification Spec);                  *)
(*   - chunking.chunk_pages (specification SpecChunk);                     *)
(*   - chunking.iter_pages (specification SpecPages);                      *)
(*   - rag03_query.rag_query after ingest runs (specification SpecQuery);  *)
(*   - rag_query and MetaStore.get_chunks_by_faiss_ids on a given index    *)
(*     directory, consistent or not (specification SpecDir).               *)
(* A text is a sequence of one-character strings.                          *)
(***************************************************************************)
EXTENDS Integers, Sequences, FiniteSets, TLC

VARIABLES
    faiss_file,   \* index_dir/faiss.index: NoFile or the saved FaissIndex
    db,           \* index_dir/meta.sqlite: the committed tables chunks and faiss_map
    pc,           \* position of the ingest run: "idle" or "batches" (inside the batch loop)
    run,          \* the locals of the ingest run in progress
    result,       \* what the last ingest call returned, or the exception it raised
    n_calls,      \* number of ingest calls made so far
    last_call,    \* history: the last finished ingest call, NoCall before it
    prev_call,    \* history: the finished ingest call before last_call
    clean,        \* history: no ingest call has raised so far
    answer,       \* what the last rag_query or resolve call returned
    ck,           \* chunk_pages: its locals, its position and the history of its flushes
    rd            \* iter_pages: the lines of the file, its position and what it yielded

ivars == <<faiss_file, db, pc, run, result, n_calls, last_call, prev_call, clean, answer>>

vars == <<faiss_file, db, pc, run, result, n_calls, last_call, prev_call, clean, answer, ck, rd>>

(***************************************************************************)
(* Bounds                                                                  *)
(***************************************************************************)
MaxStream == 2      \* chunks per chunk JSONL file
MaxRuns == 2        \* ingest calls per behaviour

\* texts of the chunk records a chunk JSONL file may hold
TextPool == { <<" ">>, <<"a">>, <<" ", "a">>, <<"b">> }

\* values of the batch_size parameter
BatchSizes == {1, 2}

\* embedding dimensionalities the provider may answer with
Dims == {2, 3}

NoFile == [exists |-> FALSE]
None == [none |-> TRUE]
NoRun == [active |-> FALSE]
NoResult == [status |-> "none"]
NoCall == [called |-> FALSE]
NoChunking == [at |-> "none"]
NoReading == [at |-> "none"]
NoAnswer == [called |-> FALSE]

(***************************************************************************)
(* Text helpers                                                            *)
(***************************************************************************)
IsSpace(c) == c \in {" ", "\n", "\t"}

RECURSIVE LStrip(_)
LStrip(s) == IF s = <<>> THEN s
             ELSE IF IsSpace(Head(s)) THEN LStrip(Tail(s)) ELSE s

RECURSIVE RStrip(_)
RStrip(s) == IF s = <<>> THEN s
             ELSE IF IsSpace(s[Len(s)]) THEN RStrip(SubSeq(s, 1, Len(s) - 1)) ELSE s

\* str.strip()
Strip(s) == RStrip(LStrip(s))

(***************************************************************************)
(* rag03_meta_sqlite                                                       *)
(***************************************************************************)
\* the digest of the encoded text; SHA-1 is taken as collision free
sha1_text(s) == <<"sha1", s>>

EmptyDb == [chunks |-> {}, faiss_map |-> {}]

has_sha1(d, h) == \E r \in d.chunks : r.sha1 = h

\* uuid.uuid4(): an identifier no row of the table carries
uuid4(d) == Cardinality(d.chunks) + 1

\* INSERT INTO chunks; sha1 is UNIQUE, chunk_id is the PRIMARY KEY
insert_chunk(d, text) ==
    LET s == sha1_text(text)
        row == [chunk_id |-> uuid4(d), text |-> text, sha1 |-> s]
    IN IF has_sha1(d, s) \/ (\E r \in d.chunks : r.chunk_id = row.chunk_id)
       THEN [err |-> "IntegrityError", db |-> d, row |-> row]
       ELSE [err |-> "", db |-> [d EXCEPT !.chunks = @ \cup {row}], row |-> row]

\* zip(faiss_ids, reversed(chunk_ids)): the pairs of a batch in the wrong order
ZipReversed(faiss_ids, chunk_ids) ==
    LET n == IF Len(faiss_ids) < Len(chunk_ids) THEN Len(faiss_ids) ELSE Len(chunk_ids)
    IN [k \in 1..n |-> [faiss_id |-> faiss_ids[k],
                        chunk_id |-> chunk_ids[Len(chunk_ids) + 1 - k]]]

\* zip(faiss_ids, chunk_ids)
Zip(faiss_ids, chunk_ids) ==
    LET n == IF Len(faiss_ids) < Len(chunk_ids) THEN Len(faiss_ids) ELSE Len(chunk_ids)
    IN [k \in 1..n |-> [faiss_id |-> faiss_ids[k], chunk_id |-> chunk_ids[k]]]

\* executemany INSERT INTO faiss_map; faiss_id is the PRIMARY KEY
RECURSIVE InsertPairs(_, _)
InsertPairs(d, pairs) ==
    IF pairs = <<>> THEN [err |-> "", db |-> d]
    ELSE IF \E m \in d.faiss_map : m.faiss_id = Head(pairs).faiss_id
         THEN [err |-> "IntegrityError", db |-> d]
         ELSE InsertPairs([d EXCEPT !.faiss_map = @ \cup {Head(pairs)}], Tail(pairs))

insert_faiss_map(d, faiss_ids, chunk_ids) == InsertPairs(d, Zip(faiss_ids, chunk_ids))

\* get_chunks_by_faiss_ids that returns the joined rows by ascending faiss_id
get_chunks_in_row_order(d, faiss_ids) ==
    LET joined == { [faiss_id |-> m.faiss_id, text |-> c.text] :
                      <<m, c>> \in { mc \in d.faiss_map \X d.chunks :
                                       mc[1].chunk_id = mc[2].chunk_id } }
        wanted == { j \in joined : \E k \in 1..Len(faiss_ids) : faiss_ids[k] = j.faiss_id }
        RECURSIVE Ascending(_)
        Ascending(rows) ==
            IF rows = {} THEN <<>>
            ELSE LET lo == CHOOSE r \in rows : \A o \in rows : r.faiss_id <= o.faiss_id
                 IN <<lo>> \o Ascending(rows \ {lo})
    IN Ascending(wanted)

\* SELECT ... FROM faiss_map m JOIN chunks c ... WHERE m.faiss_id IN (...),
\* then [by_id[i] for i in faiss_ids if i in by_id]
get_chunks_by_faiss_ids(d, faiss_ids) ==
    LET joined == { [faiss_id |-> m.faiss_id, text |-> c.text] :
                      <<m, c>> \in { mc \in d.faiss_map \X d.chunks :
                                       mc[1].chunk_id = mc[2].chunk_id } }
        found(i) == \E j \in joined : j.faiss_id = i
        by_id(i) == CHOOSE j \in joined : j.faiss_id = i
        kept == SelectSeq(faiss_ids, found)
    IN [k \in 1..Len(kept) |-> by_id(kept[k])]

(***************************************************************************)
(* rag03_embeddings and rag03_index_faiss                                  *)
(***************************************************************************)
CharVec(c) == IF c = "a" THEN <<1, 0>> ELSE IF c = "b" THEN <<0, 1>> ELSE <<1, 2>>

RECURSIVE SumChars(_, _)
SumChars(s, k) == IF s = <<>> THEN 1 ELSE CharVec(Head(s))[k] + SumChars(Tail(s), k)

\* the provider's vector of one text: a fixed function of the text
Embed(text, dim) == [k \in 1..dim |-> IF k <= 2 THEN SumChars(text, k) ELSE Len(text) + 1]

\* embedder.embed_texts(texts): the provider's answer resp is
\*   "ok": one vector of resp.dim numbers per text, in order;
\*   "short": the last row is missing;  "raise": the call raises
embed_texts(texts, resp) ==
    LET n == IF resp.kind = "short" THEN Len(texts) - 1 ELSE Len(texts)
    IN [k \in 1..n |-> Embed(texts[k], resp.dim)]

Abs(x) == IF x < 0 THEN -x ELSE x

RECURSIVE GCD(_, _)
GCD(x, y) == IF y = 0 THEN x ELSE GCD(y, x % y)

RECURSIVE GCDAll(_)
GCDAll(v) == IF v = <<>> THEN 0 ELSE GCD(Abs(Head(v)), GCDAll(Tail(v)))

\* x / max(norm, eps) keeps the direction of x and loses its length: the
\* unit vector is represented by the shortest integer vector of its direction
l2_normalize_row(v) ==
    LET g == GCDAll(v) IN IF g = 0 THEN v ELSE [k \in 1..Len(v) |-> v[k] \div g]

l2_normalize(vecs) == [k \in 1..Len(vecs) |-> l2_normalize_row(vecs[k])]

\* FaissIndex(dim)
NewFaissIndex(dim) == [dim |-> dim, vecs |-> <<>>]

ntotal(fi) == Len(fi.vecs)

\* FaissIndex.add that takes rows of any dimensionality
FaissAddAnyDim(fi, vecs) ==
    LET nv == l2_normalize(vecs)
        start_id == ntotal(fi)
    IN [err |-> "", fi |-> [fi EXCEPT !.vecs = @ \o nv],
        ids |-> [k \in 1..Len(vecs) |-> start_id + k - 1]]

\* FaissIndex.add with start_id read after the vectors were added
FaissAddLateStart(fi, vecs) ==
    LET nv == l2_normalize(vecs)
        start_id == ntotal(fi) + Len(vecs)
    IN IF \E k \in 1..Len(vecs) : Len(vecs[k]) # fi.dim
       THEN [err |-> "AssertionError", fi |-> fi, ids |-> <<>>]
       ELSE [err |-> "", fi |-> [fi EXCEPT !.vecs = @ \o nv],
             ids |-> [k \in 1..Len(vecs) |-> start_id + k - 1]]

\* FaissIndex.add: range(start_id, start_id + vecs.shape[0]); faiss asserts
\* that the rows have the dimensionality of the index
FaissAdd(fi, vecs) ==
    LET nv == l2_normalize(vecs)
        start_id == ntotal(fi)
    IN IF \E k \in 1..Len(vecs) : Len(vecs[k]) # fi.dim
       THEN [err |-> "AssertionError", fi |-> fi, ids |-> <<>>]
       ELSE [err |-> "", fi |-> [fi EXCEPT !.vecs = @ \o nv],
             ids |-> [k \in 1..Len(vecs) |-> start_id + k - 1]]

\* sum of the products of the components
RECURSIVE Dot(_, _)
Dot(u, v) == IF u = <<>> \/ v = <<>> THEN 0 ELSE Head(u) * Head(v) + Dot(Tail(u), Tail(v))

\* IndexFlatIP score of two normalised vectors, their cosine c, represented
\* exactly by the reduced fraction <<n, d>> of c * |c|; a zero vector scores 0
InnerProduct(u, v) ==
    LET uv == Dot(u, v)
        nn == Dot(u, u) * Dot(v, v)
        g == GCD(uv * uv, nn)
    IN IF nn = 0 THEN <<0, 1>>
       ELSE << (IF uv < 0 THEN -1 ELSE 1) * ((uv * uv) \div g), nn \div g >>

\* a <= b for two scores
ScoreLeq(a, b) == a[1] * b[2] <= b[1] * a[2]

\* the score faiss returns next to the position -1: the lowest float
NoScore == <<-2, 1>>

\* any order of the vectors, whatever their scores
RankingsAnyOrder(fi, q) ==
    LET n == ntotal(fi)
    IN { r \in [1..n -> 0..(n - 1)] : \A i, j \in 1..n : r[i] = r[j] => i = j }

\* the orders in which IndexFlatIP may rank all its vectors for the query q:
\* by descending score, vectors of equal score in any order
Rankings(fi, q) ==
    LET n == ntotal(fi)
        sc(p) == InnerProduct(q, fi.vecs[p + 1])
    IN { r \in [1..n -> 0..(n - 1)] :
           /\ \A i, j \in 1..n : r[i] = r[j] => i = j
           /\ \A i \in 1..(n - 1) : ScoreLeq(sc(r[i + 1]), sc(r[i])) }

\* FaissIndex.search with the ranking reversed: ascending score
FaissSearchWorstFirst(fi, qvec, top_k) ==
    LET q == l2_normalize(qvec)[1]
        n == ntotal(fi)
    IN IF Len(q) # fi.dim
       THEN { [err |-> "AssertionError", ids |-> <<>>, scores |-> <<>>] }
       ELSE { [err |-> "",
               ids |-> [i \in 1..top_k |-> IF i <= n THEN r[n + 1 - i] ELSE -1],
               scores |-> [i \in 1..top_k |->
                             IF i <= n THEN InnerProduct(q, fi.vecs[r[n + 1 - i] + 1])
                             ELSE NoScore]] : r \in Rankings(fi, q) }

\* FaissIndex.search: the outcomes of index.search(qvec, top_k) for the one
\* row of qvec; faiss fills the places beyond ntotal with the position -1
FaissSearch(fi, qvec, top_k) ==
    LET q == l2_normalize(qvec)[1]
        n == ntotal(fi)
    IN IF Len(q) # fi.dim
       THEN { [err |-> "AssertionError", ids |-> <<>>, scores |-> <<>>] }
       ELSE { [err |-> "",
               ids |-> [i \in 1..top_k |-> IF i <= n THEN r[i] ELSE -1],
               scores |-> [i \in 1..top_k |->
                             IF i <= n THEN InnerProduct(q, fi.vecs[r[i] + 1])
                             ELSE NoScore]] : r \in Rankings(fi, q) }

\* FaissIndex.save / FaissIndex.load
FaissSave(fi) == [exists |-> TRUE, dim |-> fi.dim, vecs |-> fi.vecs]

\* FaissIndex.load that recovers the dimensionality and no vector
FaissLoadEmpty(f) == [dim |-> f.dim, vecs |-> <<>>]

FaissLoad(f) == [dim |-> f.dim, vecs |-> f.vecs]

SavedSize(f) == IF f.exists THEN Len(f.vecs) ELSE 0

(***************************************************************************)
(* rag03_ingest_faiss.ingest                                               *)
(***************************************************************************)
\* text = (ch.get("text") or "").strip(); s = sha1_text(text)
GateHash(ch) == sha1_text(Strip(ch.text))

\* the loop "Collect new chunks" counting a blank chunk as skipped_existing
RECURSIVE CollectBlankAsExisting(_, _, _)
CollectBlankAsExisting(d, stream, acc) ==
    IF stream = <<>> THEN acc
    ELSE LET ch == Head(stream)
             a1 == [acc EXCEPT !.total = @ + 1]
         IN IF Strip(ch.text) = <<>> \/ has_sha1(d, GateHash(ch))
            THEN CollectBlankAsExisting(d, Tail(stream), [a1 EXCEPT !.skipped = @ + 1])
            ELSE CollectBlankAsExisting(d, Tail(stream),
                                        [a1 EXCEPT !.to_add = Append(@, ch)])

\* the loop "Collect new chunks"
RECURSIVE Collect(_, _, _)
Collect(d, stream, acc) ==
    IF stream = <<>> THEN acc
    ELSE LET ch == Head(stream)
             a1 == [acc EXCEPT !.total = @ + 1]
         IN IF Strip(ch.text) = <<>> THEN Collect(d, Tail(stream), a1)
            ELSE IF has_sha1(d, GateHash(ch))
                 THEN Collect(d, Tail(stream), [a1 EXCEPT !.skipped = @ + 1])
                 ELSE Collect(d, Tail(stream), [a1 EXCEPT !.to_add = Append(@, ch)])

\* the loop "for b in batch: row = meta.insert_chunk(...)"
RECURSIVE InsertBatch(_, _, _)
InsertBatch(d, batch, rows) ==
    IF batch = <<>> THEN [err |-> "", db |-> d, rows |-> rows]
    ELSE LET r == insert_chunk(d, Head(batch).text)
         IN IF r.err # "" THEN [err |-> r.err, db |-> d, rows |-> rows]
            ELSE InsertBatch(r.db, Tail(batch), Append(rows, r.row))

\* ensure_faiss(dim)
ensure_faiss(fi, dim) == IF fi = None THEN NewFaissIndex(dim) ELSE fi

Failed(e, d, fi) ==
    [err |-> e, db |-> d, fi |-> fi, n_rows |-> 0, n_ids |-> 0, ids |-> <<>>]

\* The batch loop with the chunk rows inserted and committed before the
\* embedding call
ProcessBatchRowsFirst(d, fi, batch, resp) ==
    LET texts == [k \in 1..Len(batch) |-> batch[k].text]
        vecs == embed_texts(texts, resp)
        fi1 == ensure_faiss(fi, resp.dim)
        ins == InsertBatch(d, batch, <<>>)
        add == FaissAdd(fi1, vecs)
        map == insert_faiss_map(ins.db, add.ids,
                                [k \in 1..Len(ins.rows) |-> ins.rows[k].chunk_id])
    IN IF ins.err # "" THEN Failed(ins.err, d, fi)
       ELSE IF resp.kind = "raise" THEN Failed("EmbeddingProviderError", ins.db, fi)
       ELSE IF Len(vecs) # Len(texts) THEN Failed("RuntimeError", ins.db, fi)
       ELSE IF add.err # "" THEN Failed(add.err, ins.db, fi1)
       ELSE IF map.err # "" THEN Failed(map.err, ins.db, add.fi)
       ELSE [err |-> "", db |-> map.db, fi |-> add.fi,
             n_rows |-> Len(ins.rows), n_ids |-> Len(add.ids), ids |-> add.ids]

\* One iteration of the batch loop on the committed tables d and the in-memory
\* index fi.  The result carries the tables as committed when the iteration
\* ends: an exception leaves the connection's open transaction uncommitted.
ProcessBatch(d, fi, batch, resp) ==
    LET texts == [k \in 1..Len(batch) |-> batch[k].text]
        vecs == embed_texts(texts, resp)
        fi1 == ensure_faiss(fi, resp.dim)
        ins == InsertBatch(d, batch, <<>>)
        add == FaissAdd(fi1, vecs)
        map == insert_faiss_map(ins.db, add.ids,
                                [k \in 1..Len(ins.rows) |-> ins.rows[k].chunk_id])
    IN IF resp.kind = "raise" THEN Failed("EmbeddingProviderError", d, fi)
       ELSE IF Len(vecs) # Len(texts) THEN Failed("RuntimeError", d, fi)
       ELSE IF ins.err # "" THEN Failed(ins.err, d, fi1)
       ELSE IF add.err # "" THEN Failed(add.err, d, fi1)
       ELSE IF map.err # "" THEN Failed(map.err, d, add.fi)
       ELSE [err |-> "", db |-> map.db, fi |-> add.fi,
             n_rows |-> Len(ins.rows), n_ids |-> Len(add.ids), ids |-> add.ids]

(***************************************************************************)
(* rag03_query.rag_query                                                   *)
(***************************************************************************)
\* zip(ids, scores)
Pairs(ids, scores) ==
    LET n == IF Len(ids) < Len(scores) THEN Len(ids) ELSE Len(scores)
    IN [k \in 1..n |-> [id |-> ids[k], score |-> scores[k]]]

\* "if i is not None and int(i) >= 0"
IsResult(pr) == pr.id >= 0

\* "for c, s in zip(chunks, scores2): c["score"] = s"; ids2 is not read
AttachScores(chunks, ids2, scores2) ==
    [j \in 1..Len(chunks) |->
        IF j <= Len(scores2)
        THEN [faiss_id |-> chunks[j].faiss_id, text |-> chunks[j].text,
              score |-> scores2[j]]
        ELSE [faiss_id |-> chunks[j].faiss_id, text |-> chunks[j].text]]

\* rag_query raised e; resp, the provider's answer to the call, is history
QueryRaised(query, top_k, resp, e) ==
    [called |-> TRUE, op |-> "rag_query", query |-> query, top_k |-> top_k,
     resp |-> resp, status |-> "error", error |-> e]

\* rag_query on the index directory (file, d): the set of its outcomes.  A
\* returned record carries the dict's query, top_k and hits, and as history
\* the provider's answer resp and the lists ids and scores that
\* FaissIndex.search returned.  meta.sqlite is taken to exist whenever
\* faiss.index does: ingest creates it first.
rag_query(file, d, query, top_k, resp) ==
    IF ~file.exists THEN { QueryRaised(query, top_k, resp, "FileNotFoundError") }
    ELSE IF resp.kind = "raise"
         THEN { QueryRaised(query, top_k, resp, "EmbeddingProviderError") }
    ELSE LET qvec == embed_texts(<<query>>, resp)
             fi == FaissLoad(file)
         IN { IF found.err # "" THEN QueryRaised(query, top_k, resp, found.err)
              ELSE LET pairs == SelectSeq(Pairs(found.ids, found.scores), IsResult)
                       ids2 == [k \in 1..Len(pairs) |-> pairs[k].id]
                       scores2 == [k \in 1..Len(pairs) |-> pairs[k].score]
                       chunks == get_chunks_by_faiss_ids(d, ids2)
                   IN [called |-> TRUE, op |-> "rag_query", query |-> query,
                       top_k |-> top_k, resp |-> resp, status |-> "ok",
                       hits |-> AttachScores(chunks, ids2, scores2),
                       ids |-> found.ids, scores |-> found.scores]
              : found \in FaissSearch(fi, qvec, top_k) }

\* the query texts, the values of top_k and the provider's answers to a query
Queries == TextPool

TopKs == {1, 2}

QueryResponses == [kind : {"ok", "raise"}, dim : Dims]

Streams == UNION { [1..n -> [text : TextPool]] : n \in 1..MaxStream }

Responses == [kind : {"ok", "short", "raise"}, dim : Dims]

Disk == [db |-> db, file |-> faiss_file]

\* history record of a finished call: its input, the directory it found, its
\* outcome and, for a call that raised, the number of batches it had completed
Finished(stream, batch_size, before, res) ==
    [called |-> TRUE, stream |-> stream, batch_size |-> batch_size,
     before |-> before, result |-> res]

\* what is remembered of the call before the last one
Older(call) ==
    IF call = NoCall THEN NoCall
    ELSE [called |-> TRUE, stream |-> call.stream,
          empty_start |-> (call.before = [db |-> EmptyDb, file |-> NoFile]),
          result |-> call.result]

Init ==
    /\ faiss_file = NoFile
    /\ db = EmptyDb
    /\ pc = "idle"
    /\ run = NoRun
    /\ result = NoResult
    /\ n_calls = 0
    /\ last_call = NoCall
    /\ prev_call = NoCall
    /\ clean = TRUE
    /\ answer = NoAnswer
    /\ ck = NoChunking
    /\ rd = NoReading

\* ingest up to the batch loop; returns at once when nothing is new.  Runs are
\* explored up to the first rag_query call of a behaviour: a query changes
\* nothing that a run reads.
IngestStart(stream, batch_size) ==
    /\ pc = "idle"
    /\ n_calls < MaxRuns
    /\ answer = NoAnswer
    /\ n_calls' = n_calls + 1
    /\ LET faiss_index == IF faiss_file.exists THEN FaissLoad(faiss_file) ELSE None
           c == Collect(db, stream, [total |-> 0, skipped |-> 0, to_add |-> <<>>])
           res == [status |-> "ok", total_chunks_in_file |-> c.total,
                   skipped_existing |-> c.skipped, added |-> 0]
       IN IF c.to_add = <<>>
          THEN /\ result' = res
               /\ last_call' = Finished(stream, batch_size, Disk, res)
               /\ prev_call' = Older(last_call)
               /\ UNCHANGED <<pc, run>>
          ELSE /\ pc' = "batches"
               /\ run' = [active |-> TRUE, stream |-> stream, batch_size |-> batch_size,
                          faiss_index |-> faiss_index, to_add |-> c.to_add,
                          skipped |-> c.skipped, total |-> c.total,
                          i |-> 0, added |-> 0, inserted_rows |-> 0,
                          before |-> Disk, last_add |-> None]
               /\ UNCHANGED <<result, last_call, prev_call>>
    /\ UNCHANGED <<faiss_file, db, clean, answer, ck, rd>>

\* one iteration of "for i in range(0, len(to_add), batch_size)"
IngestBatch(resp) ==
    /\ pc = "batches"
    /\ run.i < Len(run.to_add)
    /\ LET hi == IF run.i + run.batch_size < Len(run.to_add)
                 THEN run.i + run.batch_size ELSE Len(run.to_add)
           batch == SubSeq(run.to_add, run.i + 1, hi)
           out == ProcessBatch(db, run.faiss_index, batch, resp)
           raised == [status |-> "error", error |-> out.err]
           res == [status |-> "error", error |-> out.err,
                   batches_done |-> run.i \div run.batch_size]
       IN /\ db' = out.db
          /\ IF out.err # ""
             THEN /\ pc' = "idle"
                  /\ run' = NoRun
                  /\ result' = raised
                  /\ last_call' = Finished(run.stream, run.batch_size, run.before, res)
                  /\ prev_call' = Older(last_call)
                  /\ clean' = FALSE
             ELSE /\ run' = [run EXCEPT !.faiss_index = out.fi,
                                        !.i = @ + run.batch_size,
                                        !.inserted_rows = @ + out.n_rows,
                                        !.added = @ + out.n_ids,
                                        !.last_add = out.ids]
                  /\ UNCHANGED <<pc, result, last_call, prev_call, clean>>
    /\ UNCHANGED <<faiss_file, n_calls, answer, ck, rd>>

\* after the loop: faiss_index.save(faiss_path); meta.close(); return {...}
IngestFinish ==
    /\ pc = "batches"
    /\ run.i >= Len(run.to_add)
    /\ LET res == [status |-> "ok", total_chunks_in_file |-> run.total,
                   skipped_existing |-> run.skipped, added |-> run.added]
           saved == FaissSave(run.faiss_index)
       IN /\ faiss_file' = saved
          /\ result' = res
          /\ last_call' = Finished(run.stream, run.batch_size, run.before, res)
          /\ prev_call' = Older(last_call)
    /\ pc' = "idle"
    /\ run' = NoRun
    /\ UNCHANGED <<db, n_calls, clean, answer, ck, rd>>

Next ==
    \/ \E stream \in Streams, batch_size \in BatchSizes : IngestStart(stream, batch_size)
    \/ \E resp \in Responses : IngestBatch(resp)
    \/ IngestFinish

Spec == Init /\ [][Next]_vars

\* a call of rag_query on the index directory, outside ingest runs; the
\* behaviour ends with the call, whose answer stays to be looked at
Query(query, top_k, resp) ==
    /\ pc = "idle"
    /\ answer = NoAnswer
    /\ answer' \in rag_query(faiss_file, db, query, top_k, resp)
    /\ UNCHANGED <<faiss_file, db, pc, run, result, n_calls, last_call, prev_call,
                   clean, ck, rd>>

\* ingest runs followed by one query
NextQuery ==
    \/ Next
    \/ \E query \in Queries, top_k \in TopKs, resp \in QueryResponses :
          Query(query, top_k, resp)

SpecQuery == Init /\ [][NextQuery]_vars

(***************************************************************************)
(* rag_query and resolve on a given index directory                        *)
(***************************************************************************)
MaxVecs == 2        \* vectors in the faiss.index of a given directory
MaxRequest == 3     \* positions in one resolve request

\* An index directory handed to rag_query: faiss.index holds the embeddings
\* of the texts ts in dim dimensions, meta.sqlite holds a chunk row and a
\* position mapping for the places of ts listed in mapped.
DirOf(ts, dim, mapped) ==
    [file |-> [exists |-> TRUE, dim |-> dim,
               vecs |-> l2_normalize([k \in 1..Len(ts) |-> Embed(ts[k], dim)])],
     db |-> [chunks |-> { [chunk_id |-> k, text |-> ts[k], sha1 |-> sha1_text(ts[k])] :
                            k \in mapped },
             faiss_map |-> { [faiss_id |-> k - 1, chunk_id |-> k] : k \in mapped }]]

\* the directories: chunks.sha1 is UNIQUE, so mapped places hold distinct texts
Dirs ==
    { DirOf(ts, dim, mapped) :
        <<ts, dim, mapped>> \in
            { x \in (UNION { [1..n -> TextPool] : n \in 0..MaxVecs })
                       \X Dims \X (SUBSET (1..MaxVecs)) :
                /\ x[3] \subseteq 1..Len(x[1])
                /\ \A i, j \in x[3] : x[1][i] = x[1][j] => i = j } }

\* the lists of positions a caller asks resolve for
Requests == UNION { [1..n -> 0..MaxVecs] : n \in 0..MaxRequest }

InitDir ==
    /\ \E dir \in Dirs : faiss_file = dir.file /\ db = dir.db
    /\ pc = "idle"
    /\ run = NoRun
    /\ result = NoResult
    /\ n_calls = 0
    /\ last_call = NoCall
    /\ prev_call = NoCall
    /\ clean = TRUE
    /\ answer = NoAnswer
    /\ ck = NoChunking
    /\ rd = NoReading

\* a call of meta.get_chunks_by_faiss_ids on the directory's store
Resolve(faiss_ids) ==
    /\ pc = "idle"
    /\ answer = NoAnswer
    /\ answer' = [called |-> TRUE, op |-> "resolve", requested |-> faiss_ids,
                  out |-> get_chunks_by_faiss_ids(db, faiss_ids)]
    /\ UNCHANGED <<faiss_file, db, pc, run, result, n_calls, last_call, prev_call,
                   clean, ck, rd>>

\* one call on the directory
NextDir ==
    \/ \E query \in Queries, top_k \in TopKs, resp \in QueryResponses :
          Query(query, top_k, resp)
    \/ \E faiss_ids \in Requests : Resolve(faiss_ids)

SpecDir == InitDir /\ [][NextDir]_vars

(***************************************************************************)
(* chunking: heading detection                                             *)
(***************************************************************************)
DIGIT == {"0", "1", "2", "3", "4", "5", "6", "7", "8", "9"}

UPPER == {"A", "B", "C", "D", "E", "F", "G", "H", "I", "J", "K", "L", "M",
          "N", "O", "P", "Q", "R", "S", "T", "U", "V", "W", "X", "Y", "Z"}

LOWER == {"a", "b", "c", "d", "e", "f", "g", "h", "i", "j", "k", "l", "m",
          "n", "o", "p", "q", "r", "s", "t", "u", "v", "w", "x", "y", "z"}

\* \w
IsWord(c) == c \in DIGIT \cup UPPER \cup LOWER \cup {"_"}

\* the index of the last element of the longest run s[i], s[i+1], ... inside Cls
RECURSIVE RunEnd(_, _, _)
RunEnd(s, i, Cls) ==
    IF i <= Len(s) /\ s[i] \in Cls THEN RunEnd(s, i + 1, Cls) ELSE i - 1

WS == {" ", "\n", "\t"}

StartsWith(s, w) == Len(s) >= Len(w) /\ SubSeq(s, 1, Len(w)) = w

\* \d+(?:\.\d+){1,6}
IsNumbering(n) ==
    /\ n # <<>>
    /\ \A k \in 1..Len(n) : n[k] \in DIGIT \cup {"."}
    /\ n[1] \in DIGIT /\ n[Len(n)] \in DIGIT
    /\ \A k \in 1..(Len(n) - 1) : ~(n[k] = "." /\ n[k + 1] = ".")
    /\ Cardinality({k \in 1..Len(n) : n[k] = "."}) \in 1..6

\* _re_numbered_heading on a stripped line: numbering, white space, a title
NumberedEnd(s) == RunEnd(s, 1, (DIGIT \cup {"."}))

re_numbered_heading(s) ==
    LET e == NumberedEnd(s)
    IN /\ e >= 1 /\ e < Len(s)
       /\ IsNumbering(SubSeq(s, 1, e))
       /\ s[e + 1] \in WS

ChapterWords == { <<"C", "H", "A", "P", "T", "E", "R">>, <<"C", "h", "a", "p", "t", "e", "r">>,
                  <<"S", "E", "C", "T", "I", "O", "N">>, <<"S", "e", "c", "t", "i", "o", "n">>,
                  <<"A", "P", "P", "E", "N", "D", "I", "X">>,
                  <<"A", "p", "p", "e", "n", "d", "i", "x">> }

FigureWords == { <<"F", "i", "g", "u", "r", "e">>, <<"F", "I", "G", "U", "R", "E">>,
                 <<"T", "a", "b", "l", "e">>, <<"T", "A", "B", "L", "E">> }

\* word \s+ label \b on a stripped line, the label a longest run inside Cls
LabelledLine(s, words, Cls) ==
    \E w \in words :
        /\ StartsWith(s, w)
        /\ LET a == RunEnd(s, Len(w) + 1, WS)
               b == RunEnd(s, a + 1, Cls)
           IN /\ a > Len(w)
              /\ b > a
              /\ (b = Len(s) \/ ~IsWord(s[b + 1]))

re_chapter_section(s) == LabelledLine(s, ChapterWords, UPPER \cup DIGIT)

re_figure_table(s) == LabelledLine(s, FigureWords, DIGIT)

\* ^[A-Z0-9][A-Z0-9 \-_/().,:]{8,}$
re_all_caps(s) ==
    /\ Len(s) >= 9
    /\ s[1] \in UPPER \cup DIGIT
    /\ \A k \in 2..Len(s) :
         s[k] \in UPPER \cup DIGIT \cup {" ", "-", "_", "/", "(", ")", ".", ",", ":"}

is_heading_line(line) ==
    LET s == Strip(line)
    IN IF s = <<>> THEN FALSE
       ELSE IF re_numbered_heading(s) THEN TRUE
       ELSE IF re_chapter_section(s) THEN TRUE
       ELSE IF re_figure_table(s) THEN TRUE
       ELSE IF re_all_caps(s) /\ s[Len(s)] # "." THEN TRUE
       ELSE FALSE

extract_heading_title(line) ==
    LET s == Strip(line)
        e == NumberedEnd(s)
    IN IF re_numbered_heading(s)
       THEN SubSeq(s, 1, e) \o <<" ">> \o Strip(SubSeq(s, e + 1, Len(s)))
       ELSE IF re_chapter_section(s) \/ re_figure_table(s) \/ re_all_caps(s) THEN s
       ELSE SubSeq(s, 1, IF Len(s) < 120 THEN Len(s) ELSE 120)

\* block.splitlines()[0]
RECURSIVE LineEnd(_, _)
LineEnd(s, i) == IF i <= Len(s) /\ s[i] \notin {"\n", "\r"} THEN LineEnd(s, i + 1) ELSE i - 1

FirstLine(block) == SubSeq(block, 1, LineEnd(block, 1))

NoHeading == <<"None">>

\* the heading title of the block's first line, or None
block_starts_with_heading(block) ==
    LET first_line == Strip(FirstLine(block))
    IN IF is_heading_line(first_line) THEN extract_heading_title(first_line) ELSE NoHeading

(***************************************************************************)
(* chunking: split_into_blocks                                             *)
(***************************************************************************)
\* page_text.replace("\r\n", "\n").replace("\r", "\n")
RECURSIVE NormalizeNewlines(_)
NormalizeNewlines(t) ==
    IF t = <<>> THEN t
    ELSE IF Head(t) = "\r"
         THEN IF Len(t) >= 2 /\ t[2] = "\n"
              THEN <<"\n">> \o NormalizeNewlines(Tail(Tail(t)))
              ELSE <<"\n">> \o NormalizeNewlines(Tail(t))
         ELSE <<Head(t)>> \o NormalizeNewlines(Tail(t))

\* re.split(r"\n\s*\n+", t): a separator starts at a newline and ends at the
\* last newline of the white space that follows, when there is a second one
RECURSIVE ReSplit(_, _, _)
ReSplit(t, i, piece) ==
    IF i > Len(t) THEN <<piece>>
    ELSE LET e == RunEnd(t, i, WS)
             nl == {k \in (i + 1)..e : t[k] = "\n"}
             last == CHOOSE k \in nl : \A j \in nl : j <= k
         IN IF t[i] = "\n" /\ nl # {}
            THEN <<piece>> \o ReSplit(t, last + 1, <<>>)
            ELSE ReSplit(t, i + 1, Append(piece, t[i]))

NonEmpty(b) == b # <<>>

split_into_blocks(page_text) ==
    LET t == Strip(NormalizeNewlines(page_text))
        raw_blocks == ReSplit(t, 1, <<>>)
        stripped == [k \in 1..Len(raw_blocks) |-> Strip(raw_blocks[k])]
    IN IF t = <<>> THEN <<>> ELSE SelectSeq(stripped, NonEmpty)

(***************************************************************************)
(* chunking: iter_pages                                                    *)
(***************************************************************************)
MaxLines == 3       \* lines per pages JSONL file

\* the values of a decoded JSON object: strings, integers and null
JStr(s) == [t |-> "str", v |-> s]
JInt(n) == [t |-> "int", v |-> n]
JNull == [t |-> "null", v |-> 0]

\* obj.get(key, default)
Get(obj, key, default) == IF key \in DOMAIN obj THEN obj[key] ELSE default

\* the truth value "or" tests
Truthy(x) ==
    CASE x.t = "str" -> x.v # <<>>
      [] x.t = "int" -> x.v # 0
      [] OTHER -> FALSE

\* a or b
Or(a, b) == IF Truthy(a) THEN a ELSE b

\* the last index of character c in s, 0 when there is none
LastIndex(s, c) ==
    LET at == { i \in 1..Len(s) : s[i] = c }
    IN IF at = {} THEN 0 ELSE CHOOSE i \in at : \A j \in at : j <= i

\* Path(s).stem: the final path component without its last suffix
PathStem(s) ==
    LET name == SubSeq(s, LastIndex(s, "/") + 1, Len(s))
        dot == LastIndex(name, ".")
    IN IF 1 < dot /\ dot < Len(name) THEN SubSeq(name, 1, dot - 1) ELSE name

\* the number a sequence of decimal digits denotes
RECURSIVE Decimal(_)
Decimal(s) ==
    IF s = <<>> THEN 0
    ELSE 10 * Decimal(SubSeq(s, 1, Len(s) - 1))
         + (CHOOSE d \in 0..9 : ToString(d) = s[Len(s)])

\* int(x): the integer itself, the number a string of digits in white space
\* denotes, ValueError for another string, TypeError for null
int(x) ==
    CASE x.t = "int" -> [err |-> "none", v |-> x.v]
      [] x.t = "str" ->
            LET d == Strip(x.v)
            IN IF d # <<>> /\ \A i \in 1..Len(d) : d[i] \in DIGIT
               THEN [err |-> "none", v |-> Decimal(d)]
               ELSE [err |-> "ValueError", v |-> 0]
      [] OTHER -> [err |-> "TypeError", v |-> 0]

\* the exception an expression raised instead of a page record
Raised(e) == [err |-> e]

\* PageRecord(doc=..., source_pdf=..., page=..., text=...) for a decoded
\* object, its arguments evaluated in this order
PageRecord(obj) ==
    LET doc0 == Get(obj, "doc", JNull)
        pdf0 == Get(obj, "source_pdf", JStr(<<>>))
        doc == Or(Or(doc0, JStr(PathStem(pdf0.v))), JStr(<<"d", "o", "c">>))
        text == Or(Get(obj, "text", JStr(<<>>)), JStr(<<>>))
    IN IF ~Truthy(doc0) /\ pdf0.t # "str" THEN Raised("TypeError")
       ELSE IF "source_pdf" \notin DOMAIN obj THEN Raised("KeyError")
       ELSE IF "page" \notin DOMAIN obj THEN Raised("KeyError")
       ELSE IF int(obj["page"]).err # "none" THEN Raised(int(obj["page"]).err)
       ELSE [err |-> "none", doc |-> doc.v, source_pdf |-> obj["source_pdf"].v,
             page |-> int(obj["page"]).v, text |-> text.v]

\* a line of the file: white space only, text that is no JSON document, or
\* the text of a JSON object
BlankLine == [kind |-> "blank"]
NotJsonLine == [kind |-> "text"]
ObjectLine(obj) == [kind |-> "object", obj |-> obj]

\* json.loads(line)
json_loads(line) ==
    IF line.kind = "object" THEN [err |-> "none", obj |-> line.obj]
    ELSE Raised("JSONDecodeError")

\* the lines a pages JSONL file is made of
Lines ==
    { BlankLine,
      NotJsonLine,
      ObjectLine([source_pdf |-> JStr(<<"a", ".", "p", "d", "f">>), page |-> JInt(1),
                  text |-> JStr(<<"a", "b">>)]),
      ObjectLine([doc |-> JStr(<<"d">>), source_pdf |-> JStr(<<"a", ".", "p", "d", "f">>),
                  page |-> JStr(<<"2">>), text |-> JNull]),
      ObjectLine([page |-> JInt(1), text |-> JStr(<<"a", "b">>)]),
      ObjectLine([source_pdf |-> JStr(<<"a", ".", "p", "d", "f">>),
                  text |-> JStr(<<"c">>)]) }

PageFiles == UNION { [1..n -> Lines] : n \in 0..MaxLines }

InitPages ==
    /\ faiss_file = NoFile
    /\ db = EmptyDb
    /\ pc = "idle"
    /\ run = NoRun
    /\ result = NoResult
    /\ n_calls = 0
    /\ last_call = NoCall
    /\ prev_call = NoCall
    /\ clean = TRUE
    /\ answer = NoAnswer
    /\ ck = NoChunking
    /\ \E file \in PageFiles :
          rd = [at |-> "lines", file |-> file, pos |-> 0, yielded |-> <<>>,
                error |-> "none"]

\* one iteration of "for line in f" of iter_pages
IterPagesLine ==
    /\ rd.at = "lines"
    /\ rd.pos < Len(rd.file)
    /\ LET line == rd.file[rd.pos + 1]
           read == [rd EXCEPT !.pos = @ + 1]
           obj == json_loads(line)
           page == PageRecord(obj.obj)
       IN rd' = IF line.kind = "blank" THEN read
                ELSE IF obj.err # "none"
                     THEN [read EXCEPT !.at = "raised", !.error = obj.err]
                ELSE IF page.err # "none"
                     THEN [read EXCEPT !.at = "raised", !.error = page.err]
                ELSE [read EXCEPT !.yielded =
                         Append(@, [doc |-> page.doc, source_pdf |-> page.source_pdf,
                                    page |-> page.page, text |-> page.text])]
    /\ UNCHANGED <<ivars, ck>>

\* the file is exhausted: the generator returns
IterPagesEnd ==
    /\ rd.at = "lines"
    /\ rd.pos = Len(rd.file)
    /\ rd' = [rd EXCEPT !.at = "done"]
    /\ UNCHANGED <<ivars, ck>>

NextPages ==
    \/ IterPagesLine
    \/ IterPagesEnd

SpecPages == InitPages /\ [][NextPages]_vars

(***************************************************************************)
(* chunking: chunk_pages                                                   *)
(***************************************************************************)
NoPage == -1

\* "\n\n".join(parts)
RECURSIVE Join(_)
Join(parts) ==
    IF parts = <<>> THEN <<>>
    ELSE IF Len(parts) = 1 THEN parts[1]
    ELSE parts[1] \o <<"\n", "\n">> \o Join(Tail(parts))

\* the locals of chunk_pages with cur_page_start beyond every page instead of None
ChunkStartLatePage(p) ==
    [at |-> "pages", target_chars |-> p.target_chars, max_chars |-> p.max_chars,
     min_chars |-> p.min_chars, overlap_chars |-> p.overlap_chars,
     chunks |-> <<>>, cur_section |-> <<"None">>, cur_text_parts |-> <<>>,
     cur_page_start |-> 1000, cur_page_end |-> -1,
     n_pages |-> 0, sorted |-> TRUE, last_page |-> 0, pages |-> <<>>,
     cur_blocks |-> <<>>, cur_seed |-> <<>>, flushes |-> <<>>]

\* the locals of chunk_pages before the first page, for the size parameters p;
\* pages, cur_blocks and flushes are history: the page records consumed so
\* far, the input blocks appended since the last emitted chunk, and for each
\* emitted chunk those blocks and the overlap text the accumulator started with
ChunkStart(p) ==
    [at |-> "pages", target_chars |-> p.target_chars, max_chars |-> p.max_chars,
     min_chars |-> p.min_chars, overlap_chars |-> p.overlap_chars,
     chunks |-> <<>>, cur_section |-> NoHeading, cur_text_parts |-> <<>>,
     cur_page_start |-> NoPage, cur_page_end |-> NoPage,
     n_pages |-> 0, sorted |-> TRUE, last_page |-> 0, pages |-> <<>>,
     cur_blocks |-> <<>>, cur_seed |-> <<>>, flushes |-> <<>>]

\* the size test without "and not forced"
DeferFlushAlways(c, text, force) == Len(text) < c.min_chars

\* "If too small and not forced, keep accumulating"
DeferFlush(c, text, force) == Len(text) < c.min_chars /\ ~force

\* flush(force) that empties the accumulator when it keeps accumulating
flushDiscardsSmall(c, force, why) ==
    LET text == Strip(Join(c.cur_text_parts))
        chunk == [page_start |-> c.cur_page_start, page_end |-> c.cur_page_end,
                  section_title |-> c.cur_section, text |-> text]
        emitted == [c EXCEPT !.chunks = Append(@, chunk),
                             !.flushes = Append(@, [why |-> why, blocks |-> c.cur_blocks,
                                                    seed |-> c.cur_seed]),
                             !.cur_blocks = <<>>]
    IN IF c.cur_text_parts = <<>> \/ c.cur_page_start = NoPage \/ c.cur_page_end = NoPage
       THEN c
       ELSE IF text = <<>> THEN c
       ELSE IF DeferFlush(c, text, force) THEN [c EXCEPT !.cur_text_parts = <<>>]
       ELSE IF c.overlap_chars > 0 /\ Len(text) > c.overlap_chars
            THEN LET tail == SubSeq(text, Len(text) - c.overlap_chars + 1, Len(text))
                 IN [emitted EXCEPT !.cur_text_parts = <<tail>>,
                                    !.cur_seed = tail,
                                    !.cur_page_start = c.cur_page_end]
            ELSE [emitted EXCEPT !.cur_text_parts = <<>>,
                                 !.cur_seed = <<>>,
                                 !.cur_page_start = NoPage]

\* flush(force) that keeps a tail also when len(text) equals overlap_chars
flushTailAtOverlap(c, force, why) ==
    LET text == Strip(Join(c.cur_text_parts))
        chunk == [page_start |-> c.cur_page_start, page_end |-> c.cur_page_end,
                  section_title |-> c.cur_section, text |-> text]
        emitted == [c EXCEPT !.chunks = Append(@, chunk),
                             !.flushes = Append(@, [why |-> why, blocks |-> c.cur_blocks,
                                                    seed |-> c.cur_seed]),
                             !.cur_blocks = <<>>]
    IN IF c.cur_text_parts = <<>> \/ c.cur_page_start = NoPage \/ c.cur_page_end = NoPage
       THEN c
       ELSE IF text = <<>> THEN c
       ELSE IF DeferFlush(c, text, force) THEN c
       ELSE IF c.overlap_chars > 0 /\ Len(text) >= c.overlap_chars
            THEN LET tail == SubSeq(text, Len(text) - c.overlap_chars + 1, Len(text))
                 IN [emitted EXCEPT !.cur_text_parts = <<tail>>,
                                    !.cur_seed = tail,
                                    !.cur_page_start = c.cur_page_end]
            ELSE [emitted EXCEPT !.cur_text_parts = <<>>,
                                 !.cur_seed = <<>>,
                                 !.cur_page_start = NoPage]

\* flush(force); why names the call site in the history only
flush(c, force, why) ==
    LET text == Strip(Join(c.cur_text_parts))
        chunk == [page_start |-> c.cur_page_start, page_end |-> c.cur_page_end,
                  section_title |-> c.cur_section, text |-> text]
        emitted == [c EXCEPT !.chunks = Append(@, chunk),
                             !.flushes = Append(@, [why |-> why, blocks |-> c.cur_blocks,
                                                    seed |-> c.cur_seed]),
                             !.cur_blocks = <<>>]
    IN IF c.cur_text_parts = <<>> \/ c.cur_page_start = NoPage \/ c.cur_page_end = NoPage
       THEN c
       ELSE IF text = <<>> THEN c
       ELSE IF DeferFlush(c, text, force) THEN c
       ELSE IF c.overlap_chars > 0 /\ Len(text) > c.overlap_chars
            THEN LET tail == SubSeq(text, Len(text) - c.overlap_chars + 1, Len(text))
                 IN [emitted EXCEPT !.cur_text_parts = <<tail>>,
                                    !.cur_seed = tail,
                                    !.cur_page_start = c.cur_page_end]
            ELSE [emitted EXCEPT !.cur_text_parts = <<>>,
                                 !.cur_seed = <<>>,
                                 !.cur_page_start = NoPage]

\* prospective_len without the separator that the join adds
ProspectiveLenNoSep(parts, block) == Len(Join(parts)) + Len(block)

\* prospective_len
ProspectiveLen(parts, block) ==
    Len(Join(parts)) + (IF parts # <<>> THEN 2 ELSE 0) + Len(block)

\* the body of "for block in blocks" for one block of the page numbered page
ProcessBlock(c, block, page) ==
    LET heading == block_starts_with_heading(block)
        c1 == IF heading # NoHeading
              THEN [flush(c, TRUE, "heading") EXCEPT !.cur_section = heading]
              ELSE c
        c2 == [c1 EXCEPT !.cur_page_start = IF @ = NoPage THEN page ELSE @,
                         !.cur_page_end = page]
        prospective_len == ProspectiveLen(c2.cur_text_parts, block)
        c3 == IF prospective_len > c2.max_chars
              THEN [flush(c2, TRUE, "max") EXCEPT
                        !.cur_page_start = IF @ = NoPage THEN page ELSE @,
                        !.cur_page_end = page]
              ELSE c2
        c4 == [c3 EXCEPT !.cur_text_parts = Append(@, block),
                         !.cur_blocks = Append(@, [text |-> block, page |-> page,
                                                   heading |-> heading # NoHeading])]
        current_len == Len(Join(c4.cur_text_parts))
    IN IF current_len >= c4.target_chars THEN flush(c4, FALSE, "target") ELSE c4

RECURSIVE ProcessBlocks(_, _, _)
ProcessBlocks(c, blocks, page) ==
    IF blocks = <<>> THEN c
    ELSE ProcessBlocks(ProcessBlock(c, Head(blocks), page), Tail(blocks), page)

\* the body of "for pr in pages" with a forced flush at the end of the page
ProcessPageFlushing(c, pr) ==
    IF Strip(pr.text) = <<>> THEN c
    ELSE flush(ProcessBlocks(c, split_into_blocks(pr.text), pr.page), TRUE, "final")

\* the body of "for pr in pages"
ProcessPage(c, pr) ==
    IF Strip(pr.text) = <<>> THEN c
    ELSE ProcessBlocks(c, split_into_blocks(pr.text), pr.page)

\* the page texts the input pages are drawn from
PageTexts ==
    { <<"1", ".", "1", " ", "T">>,
      <<"a", "b">>,
      <<"a", "b", "c", "d", "\n", "\n", "e", "f">>,
      <<" ", " ", "\n">>,
      <<"a", "\n", " ", "\n", "\n", "T", "a", "b", "l", "e", " ", "1", "\n", "b">>,
      <<"a", "b", " ", "c", "d", " ", "e", "f">> }

MaxPages == 3       \* pages per input

\* the page numbers of the input pages
PageNos == {1, 2}

\* the size parameters chunk_pages is called with
ParamSets ==
    { [target_chars |-> 4, max_chars |-> 6, min_chars |-> 2, overlap_chars |-> 0],
      [target_chars |-> 4, max_chars |-> 6, min_chars |-> 2, overlap_chars |-> 3],
      [target_chars |-> 6, max_chars |-> 8, min_chars |-> 3, overlap_chars |-> 2],
      [target_chars |-> 3, max_chars |-> 12, min_chars |-> 5, overlap_chars |-> 0],
      [target_chars |-> 3, max_chars |-> 4, min_chars |-> 1, overlap_chars |-> 5] }

PageRecords == [page : PageNos, text : PageTexts]

\* the size parameters of the two-page scenario
ScenarioParams ==
    [target_chars |-> 1000, max_chars |-> 1200, min_chars |-> 10, overlap_chars |-> 0]

\* "1.1 Overview\nShort intro paragraph."
ScenarioPage1 ==
    <<"1", ".", "1", " ", "O", "v", "e", "r", "v", "i", "e", "w", "\n",
      "S", "h", "o", "r", "t", " ", "i", "n", "t", "r", "o", " ", "p",
      "a", "r", "a", "g", "r", "a", "p", "h", ".">>

\* "Continuation text that is still short."
ScenarioPage2 ==
    <<"C", "o", "n", "t", "i", "n", "u", "a", "t", "i", "o", "n", " ",
      "t", "e", "x", "t", " ", "t", "h", "a", "t", " ", "i", "s", " ",
      "s", "t", "i", "l", "l", " ", "s", "h", "o", "r", "t", ".">>

\* the page texts chunk_pages is given together with ScenarioParams
ScenarioTexts ==
    { ScenarioPage1, ScenarioPage2, <<"1", ".", "1", " ", "T">>, <<"a", "b">>,
      <<" ", " ", "\n">> }

ScenarioRecords == [page : PageNos, text : ScenarioTexts]

\* the page records an input of the call with the parameters of c holds
InputPages(c) ==
    IF c.target_chars = ScenarioParams.target_chars THEN ScenarioRecords ELSE PageRecords

InitChunk ==
    /\ faiss_file = NoFile
    /\ db = EmptyDb
    /\ pc = "idle"
    /\ run = NoRun
    /\ result = NoResult
    /\ n_calls = 0
    /\ last_call = NoCall
    /\ prev_call = NoCall
    /\ clean = TRUE
    /\ answer = NoAnswer
    /\ \E p \in ParamSets \cup {ScenarioParams} : ck = ChunkStart(p)
    /\ rd = NoReading

\* one iteration of "for pr in pages"
ChunkPage(pr) ==
    /\ ck.at = "pages"
    /\ ck.n_pages < MaxPages
    /\ pr \in InputPages(ck)
    /\ ck' = [ProcessPage(ck, pr) EXCEPT !.n_pages = @ + 1,
                                         !.sorted = @ /\ ck.last_page <= pr.page,
                                         !.last_page = pr.page,
                                         !.pages = Append(@, pr)]
    /\ UNCHANGED <<ivars, rd>>

\* after the loop: flush(force=True); return chunks
ChunkReturn ==
    /\ ck.at = "pages"
    /\ ck' = [flush(ck, TRUE, "final") EXCEPT !.at = "done"]
    /\ UNCHANGED <<ivars, rd>>

NextChunk ==
    \/ \E pr \in PageRecords \cup ScenarioRecords : ChunkPage(pr)
    \/ ChunkReturn

SpecChunk == InitChunk /\ [][NextChunk]_vars

(***************************************************************************)
(* Properties of ingest (specification Spec)                               *)
(***************************************************************************)
\* the exception came from the embedding provider or from its answer's shape
ProviderFault(res) ==
    res.status = "error"
    /\ res.error \in {"EmbeddingProviderError", "RuntimeError", "AssertionError"}

NonBlank(stream) == \A k \in 1..Len(stream) : Strip(stream[k].text) # <<>>

Distinct(stream) ==
    \A j, k \in 1..Len(stream) : stream[j].text = stream[k].text => j = k

\* distinct texts without surrounding white space
Plain(stream) ==
    Distinct(stream) /\ \A k \in 1..Len(stream) : Strip(stream[k].text) = stream[k].text

EmptyDir(disk) == disk = [db |-> EmptyDb, file |-> NoFile]

RowOf(d, chunk_id) == CHOOSE r \in d.chunks : r.chunk_id = chunk_id

\* C1: a stream of N non-empty chunks with distinct contents, ingested into an
\* empty index directory, is reported with added = N; ingested a second time
\* into the same directory it is reported with added = 0 and
\* skipped_existing = N and leaves the saved index and the metadata store as
\* they were.
C1_Idempotence ==
    /\ ( /\ pc = "idle" /\ last_call.called
         /\ EmptyDir(last_call.before)
         /\ NonBlank(last_call.stream) /\ Distinct(last_call.stream)
         /\ ~ProviderFault(last_call.result) )
       => ( /\ last_call.result.status = "ok"
            /\ last_call.result.added = Len(last_call.stream) )
    /\ ( /\ pc = "idle" /\ last_call.called /\ prev_call.called
         /\ prev_call.empty_start /\ prev_call.result.status = "ok"
         /\ last_call.stream = prev_call.stream
         /\ NonBlank(last_call.stream) /\ Distinct(last_call.stream)
         /\ ~ProviderFault(last_call.result) )
       => ( /\ last_call.result.status = "ok"
            /\ last_call.result.added = 0
            /\ last_call.result.skipped_existing = Len(last_call.stream)
            /\ Disk = last_call.before )

\* C2: a stream of two chunks with the same text, new to the store, is
\* ingested without a duplicate-content error, with added = 1 and
\* skipped_existing = 1, and the saved index grows by exactly one vector.
C2_DuplicateInOneRun ==
    ( /\ pc = "idle" /\ last_call.called
      /\ Len(last_call.stream) = 2
      /\ last_call.stream[1].text = last_call.stream[2].text
      /\ NonBlank(last_call.stream)
      /\ ~has_sha1(last_call.before.db, GateHash(last_call.stream[1]))
      /\ ~has_sha1(last_call.before.db, sha1_text(last_call.stream[1].text))
      /\ ~ProviderFault(last_call.result) )
    => ( /\ last_call.result.status = "ok"
         /\ last_call.result.added = 1
         /\ last_call.result.skipped_existing = 1
         /\ SavedSize(faiss_file) = SavedSize(last_call.before.file) + 1 )

\* C3: after ingest calls that all returned without error, the positions of
\* the position map are exactly 0..N-1, N the size of the saved index; every
\* position maps to one chunk id, resolve([p]) returns one chunk for every
\* position p, and no two stored chunks share a content hash.
C3_Bijection ==
    (pc = "idle" /\ clean) =>
        LET N == SavedSize(faiss_file)
        IN /\ {m.faiss_id : m \in db.faiss_map} = 0..(N - 1)
           /\ \A p \in 0..(N - 1) :
                /\ Cardinality({m \in db.faiss_map : m.faiss_id = p}) = 1
                /\ Len(get_chunks_by_faiss_ids(db, <<p>>)) = 1
           /\ \A r1, r2 \in db.chunks : r1.sha1 = r2.sha1 => r1 = r2

\* two calls returned without error and each added a vector
C3_Witness ==
    /\ pc = "idle" /\ clean /\ prev_call.called
    /\ last_call.result.added >= 1
    /\ SavedSize(faiss_file) > last_call.result.added

\* the provider raised or answered with the wrong number of rows
BatchAborted(res) ==
    res.status = "error" /\ res.error \in {"EmbeddingProviderError", "RuntimeError"}

\* C4: after a run aborted by a per-batch error the saved index holds exactly
\* the committed batches: its size is the number of committed position
\* mappings, which is the number of committed chunk rows.
C4_AbortLeavesValidState ==
    (pc = "idle" /\ BatchAborted(result) /\ Plain(last_call.stream)) =>
        /\ SavedSize(faiss_file) = Cardinality(db.faiss_map)
        /\ Cardinality(db.faiss_map) = Cardinality(db.chunks)

\* every non-empty chunk of the stream is stored once and has one vector,
\* its embedding, in the saved index at its mapped position
StoredOnceWithVector(stream) ==
    \A k \in 1..Len(stream) :
        Strip(stream[k].text) # <<>> =>
            /\ Cardinality({r \in db.chunks : r.text = stream[k].text}) = 1
            /\ LET r == CHOOSE r \in db.chunks : r.text = stream[k].text
                   at == {m \in db.faiss_map : m.chunk_id = r.chunk_id}
               IN /\ Cardinality(at) = 1
                  /\ \A m \in at :
                       /\ m.faiss_id < SavedSize(faiss_file)
                       /\ faiss_file.vecs[m.faiss_id + 1]
                            = l2_normalize_row(Embed(r.text, faiss_file.dim))

\* C5: when a run was aborted by an embedding failure after it had committed
\* a batch, a later run over the same stream with a working provider returns
\* without error, and then every non-empty chunk of the stream is stored once
\* and has its vector in the saved index at its mapped position.
C5_RetryAfterAbort ==
    ( /\ pc = "idle" /\ last_call.called /\ prev_call.called
      /\ prev_call.result.status = "error"
      /\ prev_call.result.error = "EmbeddingProviderError"
      /\ prev_call.result.batches_done >= 1
      /\ last_call.stream = prev_call.stream
      /\ Plain(last_call.stream)
      /\ ~ProviderFault(last_call.result) )
    => ( /\ last_call.result.status = "ok"
         /\ StoredOnceWithVector(last_call.stream) )

\* C6: the step in which a batch fails because the embedding call raises or
\* answers with the wrong number of rows leaves the committed chunk rows and
\* position mappings as they were: what earlier batches committed stays, and
\* nothing of the failed batch or of a later one becomes durable.
C6_NoPartialBatch ==
    [][ (pc = "batches" /\ pc' = "idle" /\ BatchAborted(result')) => db' = db ]_vars

\* a run was aborted by the provider after it had committed a batch
C6_Witness ==
    /\ pc = "idle" /\ BatchAborted(result)
    /\ last_call.result.batches_done >= 1
    /\ Cardinality(db.chunks) > Cardinality(last_call.before.db.chunks)

\* C7: the hash the dedup gate tests is the hash insert_chunk stores, so no
\* chunk whose content the store held when the run started is sent to the
\* embedding gateway and to insert_chunk.
C7_StoredContentNotReembedded ==
    pc = "batches" =>
        \A k \in 1..Len(run.to_add) :
            ~has_sha1(run.before.db, sha1_text(run.to_add[k].text))

\* C8: after a call that returned without error, the vector at every
\* position p of the saved index is the embedding of the text of the chunk
\* mapped to p; within a run the i-th new chunk in stream order has position
\* M + i, M the size of the index when the run started.
C8_Pairing ==
    /\ (pc = "idle" /\ result.status = "ok") =>
          \A p \in 0..(SavedSize(faiss_file) - 1) :
              /\ \E m \in db.faiss_map : m.faiss_id = p
              /\ \A m \in db.faiss_map :
                    m.faiss_id = p =>
                        faiss_file.vecs[p + 1]
                          = l2_normalize_row(Embed(RowOf(db, m.chunk_id).text, faiss_file.dim))
    /\ pc = "batches" =>
          LET M == SavedSize(run.before.file)
              done == IF run.i < Len(run.to_add) THEN run.i ELSE Len(run.to_add)
          IN \A i \in 0..(done - 1) :
                \E m \in db.faiss_map :
                    /\ m.faiss_id = M + i
                    /\ RowOf(db, m.chunk_id).text = run.to_add[i + 1].text

\* a call onto a non-empty index added two chunks in one batch and returned
C8_Witness ==
    /\ pc = "idle" /\ result.status = "ok"
    /\ result.added = 2 /\ last_call.batch_size = 2
    /\ SavedSize(last_call.before.file) >= 1

\* the size of the in-memory index of the run, 0 before ensure_faiss made it
RunIndexSize(r) == IF r.faiss_index = None THEN 0 ELSE ntotal(r.faiss_index)

\* C17: every add of the m vectors of a batch to an index of size s returns
\* the positions s, s+1, ..., s+m-1 and leaves the index at size s+m; save
\* writes the index at its size and load restores it, so the first add of a
\* run on a saved index starts at the size the index was saved with.
C17_AddPositions ==
    [][ /\ (pc = "batches" /\ pc' = "batches" /\ run'.i # run.i) =>
            LET s == RunIndexSize(run)
                left == Len(run.to_add) - run.i
                m == IF run.batch_size < left THEN run.batch_size ELSE left
            IN /\ run'.last_add = [k \in 1..m |-> s + k - 1]
               /\ RunIndexSize(run') = s + m
               /\ run.i = 0 => s = SavedSize(faiss_file)
        /\ (pc = "batches" /\ faiss_file' # faiss_file) =>
            /\ SavedSize(faiss_file') = RunIndexSize(run)
            /\ FaissLoad(faiss_file') = run.faiss_index
      ]_vars

\* a run that loaded a saved index has added a batch of two vectors to it
C17_Witness ==
    /\ pc = "batches" /\ run.i > 0
    /\ SavedSize(run.before.file) >= 1
    /\ Len(run.last_add) = 2
    /\ run.last_add[1] = SavedSize(run.before.file)

\* C19: the dimensionality of the index of a run is that of the saved index
\* it loaded, or else that of the first batch's embeddings, and no batch
\* changes it: every vector a batch adds has that dimensionality, and a batch
\* whose embeddings have another one makes the run raise, the chunk rows and
\* position mappings of that batch uncommitted and the saved index untouched.
C19_ShapeMismatch ==
    [][ /\ (pc = "idle" /\ pc' = "batches" /\ faiss_file.exists) =>
            run'.faiss_index.dim = faiss_file.dim
        /\ (pc = "batches" /\ pc' = "batches" /\ run'.i # run.i) =>
            /\ run.faiss_index # None => run'.faiss_index.dim = run.faiss_index.dim
            /\ \A k \in 1..ntotal(run'.faiss_index) :
                  Len(run'.faiss_index.vecs[k]) = run'.faiss_index.dim
        /\ (pc = "batches" /\ pc' = "idle" /\ result'.status = "error"
               /\ result'.error = "AssertionError") =>
            /\ db' = db
            /\ faiss_file' = faiss_file
      ]_vars

\* the second batch of a run came with another dimensionality than the
\* first, whose rows are committed, and the run raised
C19_Witness ==
    /\ pc = "idle" /\ result.status = "error" /\ result.error = "AssertionError"
    /\ last_call.result.batches_done >= 1
    /\ Cardinality(db.chunks) > Cardinality(last_call.before.db.chunks)

\* C20: when the embedding provider fails on a batch, what ingest hands to
\* its caller is a run result that carries the counts added,
\* skipped_existing and failed_batches, added being the number of vectors of
\* the batches completed before the failure and failed_batches at least 1.
C20_FailureCarriesCounts ==
    (pc = "idle" /\ result.status = "error"
        /\ result.error = "EmbeddingProviderError") =>
        /\ {"added", "skipped_existing", "failed_batches"} \subseteq DOMAIN result
        /\ result.failed_batches >= 1
        /\ result.added = Cardinality(db.faiss_map)
                            - Cardinality(last_call.before.db.faiss_map)

\* the number of chunks of a stream whose text is empty once stripped
Blank(stream) == Cardinality({ k \in 1..Len(stream) : Strip(stream[k].text) = <<>> })

\* the last ingest call returned normally and no other run has started since
ReturnedOk == pc = "idle" /\ last_call.called /\ last_call.result.status = "ok"

\* C27: after an ingest call that returned normally, total_chunks_in_file is
\* the number of chunks of the file and equals added + skipped_existing + the
\* number of chunks with empty text; added is the number of rows of chunks
\* and of faiss_map the call committed; and the saved index holds added
\* vectors more than before the call.
C27_Accounting ==
    ReturnedOk =>
        LET r == last_call.result
            before == last_call.before
        IN /\ r.total_chunks_in_file = Len(last_call.stream)
           /\ r.total_chunks_in_file
                 = r.added + r.skipped_existing + Blank(last_call.stream)
           /\ r.added = Cardinality(db.chunks) - Cardinality(before.db.chunks)
           /\ r.added = Cardinality(db.faiss_map) - Cardinality(before.db.faiss_map)
           /\ r.added = SavedSize(faiss_file) - SavedSize(before.file)

\* a call on a directory that already holds an index returned normally after
\* adding a chunk and skipping another, and the call before it returned
\* normally from a file with a chunk of empty text
C27_Witness ==
    /\ ReturnedOk
    /\ last_call.result.added >= 1
    /\ last_call.result.skipped_existing >= 1
    /\ last_call.before.file.exists
    /\ prev_call.called
    /\ prev_call.result.status = "ok"
    /\ Blank(prev_call.stream) >= 1

(***************************************************************************)
(* Properties of chunk_pages (specification SpecChunk)                     *)
(***************************************************************************)
Returned == ck.at = "done"

SizesOrdered == ck.min_chars < ck.target_chars /\ ck.target_chars <= ck.max_chars

\* C9 as stated: with min_chars < target_chars <= max_chars every returned
\* chunk except the last has min_chars <= len(text) <= max_chars.
C9_SizeBounds ==
    (Returned /\ SizesOrdered) =>
        \A k \in 1..(Len(ck.chunks) - 1) :
            /\ ck.min_chars <= Len(ck.chunks[k].text)
            /\ Len(ck.chunks[k].text) <= ck.max_chars

\* C9 as amended: for any size parameters, every chunk emitted by the flush
\* at target size has len(text) >= min_chars, and every chunk that holds two
\* or more input blocks has len(text) <= max_chars.
C9_SizeBoundsAmended ==
    ck.at # "none" =>
        \A k \in 1..Len(ck.chunks) :
            /\ ck.flushes[k].why = "target" => ck.min_chars <= Len(ck.chunks[k].text)
            /\ Len(ck.flushes[k].blocks) >= 2 => Len(ck.chunks[k].text) <= ck.max_chars

\* a chunk of two blocks was emitted at target size and is not the last one
C9_Witness ==
    /\ Returned /\ SizesOrdered
    /\ \E k \in 1..(Len(ck.chunks) - 1) :
          ck.flushes[k].why = "target" /\ Len(ck.flushes[k].blocks) >= 2

\* C10: a block classified as a heading starts a new chunk: what was
\* accumulated before it is flushed first, whatever its size, so in no chunk
\* and in no accumulator does a heading block follow another input block.
C10_HeadingBoundary ==
    ck.at # "none" =>
        /\ \A k \in 1..Len(ck.flushes) :
              \A j \in 2..Len(ck.flushes[k].blocks) : ~ck.flushes[k].blocks[j].heading
        /\ \A j \in 2..Len(ck.cur_blocks) : ~ck.cur_blocks[j].heading

\* a heading flushed an accumulator shorter than min_chars and its block
\* opens the next chunk
C10_Witness ==
    /\ Returned
    /\ \E k \in 1..(Len(ck.chunks) - 1) :
          /\ ck.flushes[k].why = "heading"
          /\ ck.flushes[k].blocks # <<>>
          /\ Len(ck.chunks[k].text) < ck.min_chars
          /\ ck.flushes[k + 1].blocks # <<>>
          /\ ck.flushes[k + 1].blocks[1].heading

\* the texts of a sequence of history block records
BlockTexts(bs) == [k \in 1..Len(bs) |-> bs[k].text]

\* the non-blank blocks of a page sequence, in document order
RECURSIVE AllBlocks(_)
AllBlocks(pages) ==
    IF pages = <<>> THEN <<>>
    ELSE split_into_blocks(Head(pages).text) \o AllBlocks(Tail(pages))

\* the input blocks of the chunks emitted so far, chunk after chunk
RECURSIVE FlushedBlocks(_)
FlushedBlocks(fs) ==
    IF fs = <<>> THEN <<>>
    ELSE BlockTexts(Head(fs).blocks) \o FlushedBlocks(Tail(fs))

\* the text of a chunk is its overlap prefix, if any, followed by the joined
\* input blocks body
TextIsSeedThenBody(text, seed, body) ==
    IF seed = <<>> THEN text = body
    ELSE IF body = <<>> THEN text = Strip(seed)
    ELSE text = Strip(seed) \o <<"\n", "\n">> \o body

\* C11: the input blocks of the emitted chunks, chunk after chunk, followed by
\* the blocks still accumulated, are the non-blank blocks of the pages read so
\* far, each once and in document order; the text of every chunk is its
\* overlap prefix followed by its input blocks, whole and joined by blank
\* lines; and nothing is left accumulated when chunk_pages returns.
C11_NoTextLoss ==
    ck.at # "none" =>
        /\ FlushedBlocks(ck.flushes) \o BlockTexts(ck.cur_blocks) = AllBlocks(ck.pages)
        /\ \A k \in 1..Len(ck.chunks) :
              TextIsSeedThenBody(ck.chunks[k].text, ck.flushes[k].seed,
                                 Join(BlockTexts(ck.flushes[k].blocks)))
        /\ Returned => ck.cur_blocks = <<>>

\* three or more blocks were returned in two or more chunks, one of them
\* holding several blocks and one starting with an overlap prefix
C11_Witness ==
    /\ Returned
    /\ Len(AllBlocks(ck.pages)) >= 3
    /\ Len(ck.chunks) >= 2
    /\ \E k \in 1..Len(ck.chunks) : Len(ck.flushes[k].blocks) >= 2
    /\ \E k \in 1..Len(ck.chunks) :
          ck.flushes[k].seed # <<>> /\ ck.flushes[k].blocks # <<>>

\* the page records whose text is not blank
HasText(pr) == Strip(pr.text) # <<>>

\* "1.1 Overview"
ScenarioTitle == <<"1", ".", "1", " ", "O", "v", "e", "r", "v", "i", "e", "w">>

\* C12: chunk_pages on page 1 "1.1 Overview\nShort intro paragraph." and
\* page 2 "Continuation text that is still short." with target_chars = 1000,
\* max_chars = 1200, min_chars = 10, overlap_chars = 0 returns exactly one
\* chunk, with page_start = 1, page_end = 2 and section_title "1.1 Overview";
\* in general, with target_chars <= max_chars, blocks that joined stay below
\* target_chars and of which none after the first is a heading are returned
\* as one chunk that holds them all, runs from the page of the first block to
\* the page of the last and carries the heading of the first block, if any.
C12_MergeAcrossPages ==
    /\ ( /\ Returned
         /\ ck.target_chars = 1000 /\ ck.max_chars = 1200
         /\ ck.min_chars = 10 /\ ck.overlap_chars = 0
         /\ ck.pages = << [page |-> 1, text |-> ScenarioPage1],
                          [page |-> 2, text |-> ScenarioPage2] >> )
       => ( /\ Len(ck.chunks) = 1
            /\ ck.chunks[1].page_start = 1
            /\ ck.chunks[1].page_end = 2
            /\ ck.chunks[1].section_title = ScenarioTitle )
    /\ LET blocks == AllBlocks(ck.pages)
           texted == SelectSeq(ck.pages, HasText)
       IN ( /\ Returned
            /\ ck.target_chars <= ck.max_chars
            /\ blocks # <<>>
            /\ Len(Join(blocks)) < ck.target_chars
            /\ \A j \in 2..Len(blocks) : block_starts_with_heading(blocks[j]) = NoHeading )
          => ( /\ Len(ck.chunks) = 1
               /\ ck.chunks[1].text = Join(blocks)
               /\ ck.chunks[1].page_start = texted[1].page
               /\ ck.chunks[1].page_end = texted[Len(texted)].page
               /\ ck.chunks[1].section_title = block_starts_with_heading(blocks[1]) )

\* chunk_pages returned from the two pages of the scenario
C12_Witness ==
    /\ Returned
    /\ ck.target_chars = 1000 /\ ck.overlap_chars = 0
    /\ ck.pages = << [page |-> 1, text |-> ScenarioPage1],
                     [page |-> 2, text |-> ScenarioPage2] >>
    /\ Len(ck.chunks) = 1

\* C13: when the page numbers of the input read so far are non-decreasing,
\* every emitted chunk has a non-empty text and a page range with
\* page_start <= page_end, both page numbers of the input.
C13_ChunkInvariant ==
    (ck.at # "none" /\ ck.sorted) =>
        \A k \in 1..Len(ck.chunks) :
            /\ ck.chunks[k].text # <<>>
            /\ ck.chunks[k].page_start # NoPage /\ ck.chunks[k].page_end # NoPage
            /\ ck.chunks[k].page_start <= ck.chunks[k].page_end

\* pages in non-decreasing order were returned as a chunk that spans two
\* pages and a chunk that starts with an overlap prefix
C13_Witness ==
    /\ Returned /\ ck.sorted
    /\ \E k \in 1..Len(ck.chunks) : ck.chunks[k].page_start < ck.chunks[k].page_end
    /\ \E k \in 1..Len(ck.chunks) : ck.flushes[k].seed # <<>>

(***************************************************************************)
(* Properties of rag_query after ingest (specification SpecQuery)          *)
(***************************************************************************)
\* rag_query returned its dict
Answered == answer.called /\ answer.op = "rag_query" /\ answer.status = "ok"

\* the position mappings whose position is inside the saved vector index
Indexed == {m \in db.faiss_map : m.faiss_id < SavedSize(faiss_file)}

\* C14: when the saved index holds at a mapped position a chunk that ingest
\* stored, rag_query with the exact text of that chunk returns the chunk as
\* its first hit, and the score of the first hit is greater than or equal to
\* the score of every returned hit.
C14_RetrievalDeterminism ==
    Answered =>
        \A m \in Indexed :
            RowOf(db, m.chunk_id).text = answer.query =>
                /\ answer.hits # <<>>
                /\ answer.hits[1].faiss_id = m.faiss_id
                /\ answer.hits[1].text = answer.query
                /\ \A j \in 1..Len(answer.hits) :
                      ScoreLeq(answer.hits[j].score, answer.hits[1].score)

\* the text of a chunk that a second ingest run appended to the index was
\* queried with top_k = 2 and came back first of two hits
C14_Witness ==
    /\ Answered /\ answer.top_k = 2 /\ Len(answer.hits) = 2
    /\ answer.hits[1].text = answer.query
    /\ answer.hits[1].faiss_id >= 1
    /\ prev_call.called /\ last_call.result.status = "ok"
    /\ last_call.result.added >= 1

(***************************************************************************)
(* Properties of rag_query and resolve on a given directory (SpecDir)      *)
(***************************************************************************)
\* the places of the search result that hold a position, not the sentinel
ValidPlaces == {i \in 1..Len(answer.ids) : answer.ids[i] >= 0}

\* C15: every hit of rag_query carries the score that the vector index
\* returned next to the hit's own position, and the hits are in the rank
\* order of the index, also when the store has no mapping for some of the
\* searched positions.
C15_ScoreAttachment ==
    Answered =>
        /\ \A j \in 1..Len(answer.hits) :
              \E i \in ValidPlaces :
                  /\ answer.ids[i] = answer.hits[j].faiss_id
                  /\ answer.scores[i] = answer.hits[j].score
        /\ \A j1, j2 \in 1..Len(answer.hits) :
              j1 < j2 =>
                  \E i1, i2 \in ValidPlaces :
                      /\ i1 < i2
                      /\ answer.ids[i1] = answer.hits[j1].faiss_id
                      /\ answer.ids[i2] = answer.hits[j2].faiss_id

\* every position of the saved vector index has a mapping
Consistent == \A p \in 0..(SavedSize(faiss_file) - 1) : \E m \in db.faiss_map : m.faiss_id = p

\* the smaller of two numbers
Least(a, b) == IF a < b THEN a ELSE b

\* C16: a top-k search of an index of n vectors with a query vector of the
\* index's dimensionality raises nothing, for n = 0 too, and returns
\* min(k, n) positions (none for n = 0), all different and inside 0..n-1,
\* each with its inner product with the query, in descending score order
\* and scoring no less than any position left out; and
\* rag_query on a directory whose positions are all mapped returns exactly
\* min(k, n) hits, none for a sentinel.
C16_ResultSize ==
    (answer.called /\ answer.op = "rag_query"
        /\ answer.resp.kind = "ok" /\ answer.resp.dim = faiss_file.dim) =>
        LET n == SavedSize(faiss_file)
            k == answer.top_k
            q == l2_normalize_row(Embed(answer.query, faiss_file.dim))
            sc(p) == InnerProduct(q, faiss_file.vecs[p + 1])
        IN /\ Answered
           /\ Answered =>
                /\ ValidPlaces = 1..Least(k, n)
                /\ \A i \in ValidPlaces :
                      /\ answer.ids[i] \in 0..(n - 1)
                      /\ answer.scores[i] = sc(answer.ids[i])
                      /\ \A j \in ValidPlaces : answer.ids[i] = answer.ids[j] => i = j
                      /\ (i + 1) \in ValidPlaces =>
                            ScoreLeq(answer.scores[i + 1], answer.scores[i])
                      /\ \A p \in 0..(n - 1) :
                            (\A j \in ValidPlaces : answer.ids[j] # p) =>
                                ScoreLeq(sc(p), answer.scores[i])
                /\ \A j \in 1..Len(answer.hits) : answer.hits[j].faiss_id >= 0
                /\ Consistent => Len(answer.hits) = Least(k, n)

\* a search with top_k = 2 of a one-vector index came back with a sentinel,
\* and rag_query returned the one hit
C16_Witness ==
    /\ Answered /\ Consistent
    /\ SavedSize(faiss_file) = 1 /\ answer.top_k = 2
    /\ answer.ids[2] = -1
    /\ Len(answer.hits) = 1

\* the position p has a mapping
Mapped(p) == \E m \in db.faiss_map : m.faiss_id = p

\* C18: resolve returns one entry for every requested position that has a
\* mapping, in the order of the request, none for the other positions, and
\* every entry carries its position and the text of the chunk mapped to it.
C18_ResolveOrder ==
    (answer.called /\ answer.op = "resolve") =>
        LET kept == SelectSeq(answer.requested, Mapped)
        IN /\ Len(answer.out) = Len(kept)
           /\ \A j \in 1..Len(kept) :
                 /\ answer.out[j].faiss_id = kept[j]
                 /\ \E m \in db.faiss_map :
                       /\ m.faiss_id = kept[j]
                       /\ answer.out[j].text = RowOf(db, m.chunk_id).text

\* a request of three positions, the mapped ones in descending order around
\* one without a mapping, was answered with two entries
C18_Witness ==
    /\ answer.called /\ answer.op = "resolve"
    /\ Len(answer.requested) = 3
    /\ Mapped(answer.requested[1]) /\ ~Mapped(answer.requested[2])
    /\ Mapped(answer.requested[3])
    /\ answer.requested[1] > answer.requested[3]
    /\ Len(answer.out) = 2

\* the page of the last input block of the chunk emitted k-th
LastBlockPage(k) == ck.flushes[k].blocks[Len(ck.flushes[k].blocks)].page

\* C22: every emitted chunk that holds input blocks has as page_end the page
\* of the last of them, the chunks emitted by the flush before a block that
\* would exceed max_chars included.
C22_PageEnd ==
    ck.at # "none" =>
        \A k \in 1..Len(ck.chunks) :
            ck.flushes[k].blocks # <<>> => ck.chunks[k].page_end = LastBlockPage(k)

\* the title of the last heading block among the block texts, NoHeading when
\* none of them is a heading
RECURSIVE LatestHeading(_)
LatestHeading(texts) ==
    IF texts = <<>> THEN NoHeading
    ELSE LET title == block_starts_with_heading(texts[Len(texts)])
         IN IF title # NoHeading THEN title
            ELSE LatestHeading(SubSeq(texts, 1, Len(texts) - 1))

\* C23: every emitted chunk carries the title of the latest heading block
\* among the input blocks of the chunks up to and including itself, or no
\* title when there is none; so no chunk carries the title of a heading whose
\* block comes only in a later chunk.
C23_SectionTitle ==
    ck.at # "none" =>
        \A k \in 1..Len(ck.chunks) :
            ck.chunks[k].section_title
                = LatestHeading(FlushedBlocks(SubSeq(ck.flushes, 1, k)))

\* the chunk emitted k-th left a tail behind: "overlap_chars > 0 and
\* len(text) > overlap_chars"
Carries(k) == ck.overlap_chars > 0 /\ Len(ck.chunks[k].text) > ck.overlap_chars

\* the trailing overlap_chars characters of the chunk emitted k-th
TailOf(k) ==
    LET text == ck.chunks[k].text
    IN SubSeq(text, Len(text) - ck.overlap_chars + 1, Len(text))

\* C24: after a chunk with overlap_chars > 0 and len(text) > overlap_chars the
\* accumulator starts with exactly the trailing overlap_chars characters of
\* that chunk and with its page_end as page_start, which the next chunk then
\* carries; after any other chunk the accumulator starts empty and without a
\* page range, and the next chunk starts on the page of its first block.
C24_OverlapCarry ==
    ck.at # "none" =>
        /\ \A k \in 1..(Len(ck.chunks) - 1) :
              IF Carries(k)
              THEN /\ ck.flushes[k + 1].seed = TailOf(k)
                   /\ ck.chunks[k + 1].page_start = ck.chunks[k].page_end
              ELSE /\ ck.flushes[k + 1].seed = <<>>
                   /\ ck.flushes[k + 1].blocks # <<>>
                   /\ ck.chunks[k + 1].page_start = ck.flushes[k + 1].blocks[1].page
        /\ LET n == Len(ck.chunks)
           IN n > 0 =>
                IF Carries(n)
                THEN /\ ck.cur_text_parts = <<TailOf(n)>> \o BlockTexts(ck.cur_blocks)
                     /\ ck.cur_page_start = ck.chunks[n].page_end
                ELSE /\ ck.cur_text_parts = BlockTexts(ck.cur_blocks)
                     /\ ck.cur_blocks = <<>> => ck.cur_page_start = NoPage
                     /\ ck.cur_blocks # <<>> => ck.cur_page_start = ck.cur_blocks[1].page

\* with overlap_chars > 0, a chunk spanning two pages left its tail to the
\* chunk after it, and a chunk of at most overlap_chars characters was
\* followed by a chunk that starts without overlap
C24_Witness ==
    /\ Returned /\ ck.overlap_chars > 0
    /\ \E k \in 1..(Len(ck.chunks) - 1) :
          /\ Carries(k)
          /\ ck.chunks[k].page_start < ck.chunks[k].page_end
          /\ ck.flushes[k + 1].blocks # <<>>
    /\ \E k \in 1..(Len(ck.chunks) - 1) : ~Carries(k)

\* C25: a chunk is longer than max_chars only when its input blocks are a
\* single block: an accumulator that holds two or more input blocks is never
\* longer than max_chars, and the text of every chunk holds its input blocks
\* whole.
C25_OversizeSingleBlock ==
    ck.at # "none" =>
        /\ \A k \in 1..Len(ck.chunks) :
              /\ Len(ck.chunks[k].text) > ck.max_chars => Len(ck.flushes[k].blocks) = 1
              /\ TextIsSeedThenBody(ck.chunks[k].text, ck.flushes[k].seed,
                                    Join(BlockTexts(ck.flushes[k].blocks)))
        /\ Len(ck.cur_blocks) >= 2 => Len(Join(ck.cur_text_parts)) <= ck.max_chars

\* C26: every emitted chunk holds at least one input block besides the
\* overlap text it started with, whichever flush emitted it.
C26_NoOverlapOnlyChunk ==
    ck.at # "none" =>
        \A k \in 1..Len(ck.chunks) : ck.flushes[k].blocks # <<>>

(***************************************************************************)
(* Properties of iter_pages (specification SpecPages)                      *)
(***************************************************************************)
\* a line that holds a JSON object with both required fields
WellFormed(line) ==
    line.kind = "object" /\ {"source_pdf", "page"} \subseteq DOMAIN line.obj

\* the page records of a sequence of well-formed lines
PagesOf(lines) ==
    [k \in 1..Len(lines) |->
        LET page == PageRecord(lines[k].obj)
        IN [doc |-> page.doc, source_pdf |-> page.source_pdf,
            page |-> page.page, text |-> page.text]]

\* C21 (the iter_pages half): when iter_pages has finished with a file whose
\* lines are blank or hold JSON objects, it has not raised, and what it
\* yielded are the page records of all the lines that hold both required
\* fields, in file order: a record missing a field is skipped and the records
\* after it are still yielded.
C21_MalformedSkipped ==
    ( /\ rd.at \in {"done", "raised"}
      /\ \A k \in 1..Len(rd.file) : rd.file[k].kind # "text" )
    => ( /\ rd.at = "done"
         /\ rd.yielded = PagesOf(SelectSeq(rd.file, WellFormed)) )

====
